---- MODULE Spec2Model ----
(***************************************************************************)
(* Model of the lease-driven system updater of wicked (src/src/update.c):  *)
(* the per-kind updater table, the source lists fed from the leases of the *)
(* interfaces, and the reconciliation pass ni_system_update_all.           *)
(***************************************************************************)
EXTENDS Integers, Sequences, FiniteSets, TLC

VARIABLES
    initialized,    \* static int initialized of ni_system_updaters_init
    updaters,       \* static ni_updater_t updaters[], indexed by kind
    leases,         \* the leases the interfaces hold, in the order a pass walks them
    config,         \* ni_global.config: per kind, the extension and its scripts
    executor,       \* which script executor the build links: "stub" or "scripts"
    crashed,        \* the process died on an access to freed memory
    last,           \* per kind: what the last completed pass did (history)
    stable,         \* passes since the leases last changed or the dhcp4 device was last
                    \* called, 2 for two or more (history)
    backedUp,       \* per kind: a backup script succeeded, no restore script since (history)
    dhcp,           \* the dhcp4 device behind the DBus object, and what the last call on it did
    returned        \* the function a pass was last entered through and the value it returned

vars == <<initialized, updaters, leases, config, executor, crashed, last, stable, backedUp,
         dhcp, returned>>

----------------------------------------------------------------------------
(* Bounds *)

\* the interfaces hold at most this many leases at a time
MaxLeases == 2

\* lease sequence numbers range over 1..MaxSeqno
MaxSeqno == 2

----------------------------------------------------------------------------
(* Kinds, leases, sources *)

\* The kinds ni_updater_name knows.  Every other index below
\* __NI_ADDRCONF_UPDATE_MAX has no name: init skips it, nothing adds a
\* source to it, and it stays zeroed and disabled for ever.
Kinds == {"hostname", "resolver"}

\* the order of the kind loops (NI_ADDRCONF_UPDATE_HOSTNAME first)
KindOrder == <<"hostname", "resolver">>

\* the NULL lease pointer
NoLease == [seqno |-> 0, type |-> "NONE", family |-> "NONE", update |-> {},
            hostname |-> FALSE, resolver |-> FALSE]

\* the fields of a DHCP IPv4 lease that may update both kinds and carries
\* both payloads
DhcpProfile ==
    [type |-> "DHCP", family |-> "AF_INET", update |-> {"hostname", "resolver"},
     hostname |-> TRUE, resolver |-> TRUE]

\* the fields of a firmware (iBFT) IPv6 lease that carries both payloads but
\* whose update mask names the hostname only
IbftProfile ==
    [type |-> "IBFT", family |-> "AF_INET6", update |-> {"hostname"},
     hostname |-> TRUE, resolver |-> TRUE]

MakeLease(s, q) ==
    [seqno |-> s, type |-> q.type, family |-> q.family, update |-> q.update,
     hostname |-> q.hostname, resolver |-> q.resolver]

\* The leases the interfaces may hold: a DHCP lease under every seqno, and a
\* firmware lease under the highest one (so that two leases share a seqno
\* and differ in weight, and two leases share a weight and differ in seqno).
LeasePool ==
    { MakeLease(s, DhcpProfile) : s \in 1..MaxSeqno } \cup { MakeLease(MaxSeqno, IbftProfile) }

\* ls without its i-th lease
RemoveAt(ls, i) == SubSeq(ls, 1, i - 1) \o SubSeq(ls, i + 1, Len(ls))

\* the lists of up to MaxLeases different leases: what the interfaces can
\* hold when a pass walks them
LeaseLists ==
    { ls \in UNION { [1..n -> LeasePool] : n \in 0..MaxLeases } :
        \A i, j \in 1..Len(ls) : ls[i] = ls[j] => i = j }

\* What the lease lists of the interfaces, chained in the order the pass
\* walks them, can become between two passes: an interface gains a lease,
\* loses one, or goes away with all its leases.
LeaseChanges(ls) ==
    { Append(ls, l) : l \in { x \in LeasePool : Len(ls) < MaxLeases
                                               /\ \A i \in 1..Len(ls) : ls[i] # x } }
    \cup { RemoveAt(ls, i) : i \in 1..Len(ls) }
    \cup { <<>> : i \in 1..Len(ls) }

\* __ni_addrconf_should_update(mask, kind)
ni_addrconf_should_update(mask, kind) == kind \in mask

can_update_hostname(lease) ==
    ni_addrconf_should_update(lease.update, "hostname") /\ lease.hostname

can_update_resolver(lease) ==
    ni_addrconf_should_update(lease.update, "resolver") /\ lease.resolver

\* the two tests of the lease loop of ni_system_update_all, by kind
can_update(kind, lease) ==
    IF kind = "hostname" THEN can_update_hostname(lease) ELSE can_update_resolver(lease)

\* static addrconf_weight[]: entries not named are zero
addrconf_weight(type) ==
    CASE type = "DHCP" -> 5
      [] type = "IBFT" -> 10
      [] OTHER -> 0

\* the weight add_source computes for a new source
SourceWeight(lease) ==
    10 * addrconf_weight(lease.type) + (IF lease.family = "AF_INET" THEN 1 ELSE 0)

\* a freshly calloc'ed and filled ni_updater_source_t
NewSource(lease) ==
    [seqno |-> lease.seqno, weight |-> SourceWeight(lease), lease |-> lease, freed |-> FALSE]

----------------------------------------------------------------------------
(* Source lists.  A list is the sequence of records reachable from        *)
(* updater->sources; freed = TRUE marks a record that was passed to free() *)
(* and is still linked.                                                    *)

\* add_source without the scan for a record of the same seqno: every call
\* appends a record
add_source_without_scan(sources, lease) == Append(sources, NewSource(lease))

\* ni_objectmodel_updater_add_source: refresh the first source with the
\* lease's seqno, or append a new one
ni_objectmodel_updater_add_source(sources, lease) ==
    IF \E i \in 1..Len(sources) : sources[i].seqno = lease.seqno
    THEN LET i == CHOOSE n \in 1..Len(sources) :
                     /\ sources[n].seqno = lease.seqno
                     /\ \A m \in 1..(n - 1) : sources[m].seqno # lease.seqno
         IN  [sources EXCEPT ![i].lease = lease]
    ELSE Append(sources, NewSource(lease))

\* the first loop of ni_system_update_all: up->lease = NULL for every source
ClearLeases(sources) ==
    [i \in 1..Len(sources) |-> [sources[i] EXCEPT !.lease = NoLease]]

\* the lease loop of ni_system_update_all for one kind: add_source for every
\* lease that can update the kind, in the order of the interfaces' leases
RECURSIVE AddSources(_, _, _)
AddSources(kind, sources, ls) ==
    IF ls = <<>> THEN sources
    ELSE AddSources(kind,
                    IF can_update(kind, Head(ls))
                    THEN ni_objectmodel_updater_add_source(sources, Head(ls))
                    ELSE sources,
                    Tail(ls))

\* the loop of ni_objectmodel_updater_select_source from position i on;
\* best is <<>> for NULL or <<source>>
RECURSIVE SelectFrom(_, _, _)
SelectFrom(sources, i, best) ==
    IF i > Len(sources) THEN best
    ELSE SelectFrom(sources, i + 1,
                    IF best = <<>> \/ sources[i].weight > best[1].weight
                    THEN <<sources[i]>> ELSE best)

ni_objectmodel_updater_select_source(sources) == SelectFrom(sources, 1, <<>>)

\* some record still linked into the list has been freed
HasFreed(sources) == \E i \in 1..Len(sources) : sources[i].freed

\* the outcome of a loop that died on freed memory
Crash == [list |-> <<>>, uaf |-> TRUE, crashed |-> TRUE]

\* The purge loop of ni_system_update_all from *pos on, rest being the
\* records linked behind pos.  inFreed: pos is the next field of a record
\* the loop has just freed (pos = &up->next runs after free(up)), or of one
\* freed by an earlier pass.  Reading *pos is then a read of freed memory:
\* the allocator may have left the old pointer there, overwritten it with
\* NULL (the loop ends, the rest stays linked) or with garbage (the process
\* dies).  A stale record met while pos lies in freed memory is freed but
\* stays linked, because *pos = up->next is written into the freed record.
\* The result is the set of outcomes [list, uaf, crashed].
RECURSIVE PurgeFrom(_, _)
PurgeFrom(rest, inFreed) ==
    LET retained ==
            IF rest = <<>>
            THEN { [list |-> <<>>, uaf |-> inFreed, crashed |-> FALSE] }
            ELSE LET up    == Head(rest)
                     stale == up.lease = NoLease
                     node  == IF stale THEN [up EXCEPT !.freed = TRUE] ELSE up
                     kept  == IF stale /\ ~inFreed THEN <<>> ELSE <<node>>
                 IN  { IF r.crashed THEN Crash
                       ELSE [list |-> kept \o r.list,
                             uaf |-> r.uaf \/ inFreed \/ up.freed,
                             crashed |-> FALSE] :
                         r \in PurgeFrom(Tail(rest), stale \/ up.freed) }
                     \cup (IF up.freed THEN {Crash} ELSE {})
    IN  IF inFreed
        THEN retained \cup { [list |-> rest, uaf |-> TRUE, crashed |-> FALSE], Crash }
        ELSE retained

\* "Purge all updater sources for which the lease went away"
PurgeSources(sources) == PurgeFrom(sources, FALSE)

----------------------------------------------------------------------------
(* The dhcp4 device *)

\* lease uuids other than the all-zero one range over 1..MaxUuid
MaxUuid == 2

\* memset(&uuid, 0, sizeof(uuid)): the all-zero uuid
ZeroUuid == 0

\* the number of octets of a ni_uuid_t, the min and max handed to
\* ni_dbus_variant_get_byte_array_minmax
UuidOctets == 16

\* no call has been made on the DBus object yet
NoCall ==
    [method |-> "none", argv |-> <<>>, ret |-> FALSE, error |-> "none", called |-> "none",
     uuid |-> ZeroUuid, active |-> ZeroUuid]

\* A ni_dhcp_device_t as the handlers see it: whether a negotiation is in
\* flight, the uuid of the lease it holds (ZeroUuid for none) and that
\* lease; call is what the last acquire or drop call since the device
\* last got a lease did.
IdleDevice == [acquiring |-> FALSE, uuid |-> ZeroUuid, lease |-> NoLease, call |-> NoCall]

----------------------------------------------------------------------------
(* Scripts *)

\* The Update Script Executor a complete build would link: a script run
\* ends in success or failure.
ScriptExecutor == BOOLEAN

\* ni_system_updater_run: the values it can return.  The function in the
\* source is a placeholder that runs nothing and returns 0.
ni_system_updater_run(proc, filename) ==
    IF executor = "stub" THEN {FALSE} ELSE ScriptExecutor

\* One call of backup, restore or install gives a set of outcomes
\* [u, ret, scripts, tried]: the updater afterwards, the return value, the
\* scripts run with their results, and whether install got as far as
\* building the settings file.
Outcome(u, ret, scripts, tried) ==
    [u |-> u, ret |-> ret, scripts |-> scripts, tried |-> tried]

ni_system_updater_backup(u) ==
    IF u.have_backup THEN { Outcome(u, TRUE, <<>>, FALSE) }
    ELSE IF ~u.proc_backup THEN { Outcome(u, TRUE, <<>>, FALSE) }
    ELSE { IF ok
           THEN Outcome([u EXCEPT !.have_backup = TRUE], TRUE,
                        <<[script |-> "backup", ok |-> TRUE]>>, FALSE)
           ELSE Outcome(u, FALSE, <<[script |-> "backup", ok |-> FALSE]>>, FALSE) :
             ok \in ni_system_updater_run("backup", "NULL") }

\* restore without the have_backup test: the restore script is run whenever
\* there is one
restore_without_have_backup_test(u) ==
    IF ~u.proc_restore THEN { Outcome(u, TRUE, <<>>, FALSE) }
    ELSE { IF ok
           THEN Outcome([u EXCEPT !.have_backup = FALSE], TRUE,
                        <<[script |-> "restore", ok |-> TRUE]>>, FALSE)
           ELSE Outcome(u, FALSE, <<[script |-> "restore", ok |-> FALSE]>>, FALSE) :
             ok \in ni_system_updater_run("restore", "NULL") }

\* restore clearing have_backup before its script has run, whatever the
\* result
restore_forgetting_backup_on_failure(u) ==
    IF ~u.have_backup THEN { Outcome(u, TRUE, <<>>, FALSE) }
    ELSE IF ~u.proc_restore THEN { Outcome(u, TRUE, <<>>, FALSE) }
    ELSE { Outcome([u EXCEPT !.have_backup = FALSE], ok,
                   <<[script |-> "restore", ok |-> ok]>>, FALSE) :
             ok \in ni_system_updater_run("restore", "NULL") }

ni_system_updater_restore(u) ==
    IF ~u.have_backup THEN { Outcome(u, TRUE, <<>>, FALSE) }
    ELSE IF ~u.proc_restore THEN { Outcome(u, TRUE, <<>>, FALSE) }
    ELSE { IF ok
           THEN Outcome([u EXCEPT !.have_backup = FALSE], TRUE,
                        <<[script |-> "restore", ok |-> TRUE]>>, FALSE)
           ELSE Outcome(u, FALSE, <<[script |-> "restore", ok |-> FALSE]>>, FALSE) :
             ok \in ni_system_updater_run("restore", "NULL") }

\* install without the test of backup's return value: it goes on to the
\* switch after a failed backup as well
install_ignoring_backup_result(u, lease) ==
    { Outcome([b.u EXCEPT !.enabled = FALSE], FALSE, b.scripts, TRUE) :
        b \in (IF ~u.have_backup THEN ni_system_updater_backup(u)
               ELSE { Outcome(u, TRUE, <<>>, FALSE) }) }

\* install whose switch leaves the updater enabled
install_leaving_enabled(u, lease) ==
    { IF ~b.ret
      THEN Outcome(b.u, FALSE, b.scripts, FALSE)
      ELSE Outcome(b.u, FALSE, b.scripts, TRUE) :
        b \in (IF ~u.have_backup THEN ni_system_updater_backup(u)
               ELSE { Outcome(u, TRUE, <<>>, FALSE) }) }

\* install storing the lease's seqno before the switch gives up
install_storing_seqno_first(u, lease) ==
    { IF ~b.ret
      THEN Outcome(b.u, FALSE, b.scripts, FALSE)
      ELSE Outcome([b.u EXCEPT !.enabled = FALSE, !.seqno = lease.seqno], FALSE,
                   b.scripts, TRUE) :
        b \in (IF ~u.have_backup THEN ni_system_updater_backup(u)
               ELSE { Outcome(u, TRUE, <<>>, FALSE) }) }

\* ni_system_updater_install: the backup if there is none yet, then the
\* switch on updater->type, every case of which reports "file format not
\* understood", disables the updater and returns 0.  The assignment
\* updater->seqno = lease->seqno behind the switch is never reached, and the
\* install script is never run.
ni_system_updater_install(u, lease) ==
    { IF ~b.ret
      THEN Outcome(b.u, FALSE, b.scripts, FALSE)
      ELSE Outcome([b.u EXCEPT !.enabled = FALSE], FALSE, b.scripts, TRUE) :
        b \in (IF ~u.have_backup THEN ni_system_updater_backup(u)
               ELSE { Outcome(u, TRUE, <<>>, FALSE) }) }

----------------------------------------------------------------------------
(* Updaters *)

\* one zeroed element of the static updaters[] array
ZeroUpdater ==
    [sources |-> <<>>, seqno |-> 0, have_backup |-> FALSE, enabled |-> FALSE,
     proc_backup |-> FALSE, proc_restore |-> FALSE, proc_install |-> FALSE]

\* What the config file can say about one kind: no "<name>-updater"
\* extension, or an extension with any subset of the three scripts.
KindConfigs ==
    { c \in [ex : BOOLEAN, backup : BOOLEAN, restore : BOOLEAN, install : BOOLEAN] :
        ~c.ex => (~c.backup /\ ~c.restore /\ ~c.install) }

\* The configurations the passes are explored under, one for each state
\* init can leave an updater in: no extension (disabled), an install script
\* only (enabled, no backup and restore), all three scripts.
MainConfigs ==
    { c \in KindConfigs : (c.ex <=> c.install) /\ (c.backup <=> c.restore) }

\* the body of the kind loop of ni_system_updaters_init for one kind
InitUpdater(u, c) ==
    IF ~c.ex THEN u
    ELSE IF ~c.install
         THEN [u EXCEPT !.enabled = FALSE, !.proc_backup = c.backup,
                        !.proc_restore = c.restore, !.proc_install = FALSE]
    ELSE IF ~c.backup \/ ~c.restore
         THEN [u EXCEPT !.enabled = TRUE, !.proc_backup = FALSE,
                        !.proc_restore = FALSE, !.proc_install = TRUE]
    ELSE [u EXCEPT !.enabled = TRUE, !.proc_backup = TRUE,
                   !.proc_restore = TRUE, !.proc_install = TRUE]

\* the updaters after a call of init that does not look at initialized and
\* walks the kinds again
InitializedUpdaters_every_call == [k \in Kinds |-> InitUpdater(updaters[k], config[k])]

\* the updaters after ni_system_updaters_init has returned
InitializedUpdaters ==
    IF initialized THEN updaters
    ELSE [k \in Kinds |-> InitUpdater(updaters[k], config[k])]

\* what a pass records about one kind
NoLog ==
    [ran |-> FALSE, winner |-> <<>>, scripts |-> <<>>, tried |-> FALSE, uaf |-> FALSE,
     retry |-> FALSE]

KindResult(u, crash, log) == [u |-> u, crashed |-> crash, log |-> log]

\* a run of the backup script that failed is among the scripts
BackupFailed(scripts) ==
    \E i \in 1..Len(scripts) : scripts[i] = [script |-> "backup", ok |-> FALSE]

\* the kind loop body with the purge ahead of the enabled test: the list of
\* a disabled updater is purged as well
UpdateKind_purging_disabled(u, before) ==
    UNION {
        IF p.crashed THEN { KindResult(u, TRUE, NoLog) }
        ELSE IF ~u.enabled THEN { KindResult([u EXCEPT !.sources = p.list], FALSE, NoLog) }
        ELSE LET v  == [u EXCEPT !.sources = p.list]
                 up == ni_objectmodel_updater_select_source(p.list)
                 outs == IF up = <<>> THEN ni_system_updater_restore(v)
                         ELSE IF v.seqno # up[1].seqno
                              THEN ni_system_updater_install(v, up[1].lease)
                         ELSE { Outcome(v, TRUE, <<>>, FALSE) }
             IN  { KindResult(o.u, FALSE,
                              [ran |-> TRUE, winner |-> up, scripts |-> o.scripts,
                               tried |-> o.tried, uaf |-> p.uaf \/ HasFreed(p.list),
                               retry |-> BackupFailed(before.scripts)]) :
                     o \in outs }
                 \cup (IF HasFreed(p.list) THEN { KindResult(u, TRUE, NoLog) } ELSE {})
        : p \in PurgeSources(u.sources) }

\* The body of the last kind loop of ni_system_update_all for one updater:
\* skip it when disabled; else purge, select, and restore or install.
\* select walks the purged list, so a freed record still linked is read.
\* before is what the pass before recorded for the kind.
UpdateKind(u, before) ==
    IF ~u.enabled THEN { KindResult(u, FALSE, NoLog) }
    ELSE UNION {
        IF p.crashed THEN { KindResult(u, TRUE, NoLog) }
        ELSE LET v  == [u EXCEPT !.sources = p.list]
                 up == ni_objectmodel_updater_select_source(p.list)
                 outs == IF up = <<>> THEN ni_system_updater_restore(v)
                         ELSE IF v.seqno # up[1].seqno
                              THEN ni_system_updater_install(v, up[1].lease)
                         ELSE { Outcome(v, TRUE, <<>>, FALSE) }
             IN  { KindResult(o.u, FALSE,
                              [ran |-> TRUE, winner |-> up, scripts |-> o.scripts,
                               tried |-> o.tried, uaf |-> p.uaf \/ HasFreed(p.list),
                               retry |-> BackupFailed(before.scripts)]) :
                     o \in outs }
                 \cup (IF HasFreed(p.list) THEN { KindResult(u, TRUE, NoLog) } ELSE {})
        : p \in PurgeSources(u.sources) }

\* the history of backups: a successful backup sets it, a successful restore clears it
RECURSIVE TrackBackup(_, _)
TrackBackup(b, scripts) ==
    IF scripts = <<>> THEN b
    ELSE TrackBackup(IF ~Head(scripts).ok THEN b ELSE Head(scripts).script = "backup",
                     Tail(scripts))

----------------------------------------------------------------------------
(* Actions *)

\* ni_system_updaters_init called on its own: a second call returns at once
ni_system_updaters_init ==
    /\ ~crashed
    /\ updaters' = InitializedUpdaters
    /\ initialized' = TRUE
    /\ UNCHANGED <<leases, config, executor, crashed, last, stable, backedUp, dhcp, returned>>

\* The updaters after init, the clearing loop and the lease loop of
\* ni_system_update_all (every kind, enabled or not), ls being the leases
\* of the interfaces.
AfterLeaseLoop(ls) ==
    [k \in Kinds |->
        [InitializedUpdaters[k] EXCEPT
            !.sources = AddSources(k, ClearLeases(InitializedUpdaters[k].sources), ls)]]

\* no pass has returned yet
NoReturn == [fn |-> "none", value |-> 0]

\* a return value that tells the caller of a failure: 0 when a script of a
\* kind failed or an install gave up
update_all_value_telling_failures(rh, rr) ==
    IF \E r \in {rh, rr} :
          r.log.tried \/ \E i \in 1..Len(r.log.scripts) : ~r.log.scripts[i].ok
    THEN 0 ELSE 1

\* What ni_system_update_all returns after a kind loop with the outcomes
\* rh and rr: the values restore and install returned are dropped, and the
\* function ends in return 1.
ni_system_update_all_value(rh, rr) == 1

\* what ni_system_update_from_lease returns when ni_system_update_all
\* returned rv
ni_system_update_from_lease_value(rv) == IF rv = 0 THEN -1 ELSE 0

\* the function a pass was entered through and the value that goes back to
\* its caller
Returned(fn, rh, rr) ==
    [fn |-> fn,
     value |-> IF fn = "ni_system_update_from_lease"
               THEN ni_system_update_from_lease_value(ni_system_update_all_value(rh, rr))
               ELSE ni_system_update_all_value(rh, rr)]

\* The process dies in ni_system_update_all.  Its memory is gone: the
\* model zeroes what it held and stops.
PassCrashes ==
    /\ crashed' = TRUE
    /\ initialized' = FALSE
    /\ updaters' = [k \in Kinds |-> ZeroUpdater]
    /\ leases' = <<>>
    /\ last' = [k \in Kinds |-> NoLog]
    /\ stable' = 0
    /\ backedUp' = [k \in Kinds |-> FALSE]
    /\ dhcp' = IdleDevice
    /\ returned' = NoReturn
    /\ UNCHANGED <<config, executor>>

\* the pass over the leases ls, the n-th since they changed and entered
\* through fn, runs to its return, with outcome rh for hostname and rr for
\* resolver
PassReturns(ls, n, fn, rh, rr) ==
    LET res == [k \in Kinds |-> IF k = "hostname" THEN rh ELSE rr]
    IN  /\ initialized' = TRUE
        /\ updaters' = [k \in Kinds |-> res[k].u]
        /\ leases' = ls
        /\ last' = [k \in Kinds |-> res[k].log]
        /\ stable' = n
        /\ backedUp' = [k \in Kinds |-> TrackBackup(backedUp[k], res[k].log.scripts)]
        /\ returned' = Returned(fn, rh, rr)
        /\ UNCHANGED <<config, executor, crashed, dhcp>>

\* a pass whose kind loop stops at the first kind for which a script failed
\* or install gave up: the kinds after it are left as the lease loop left
\* them
Pass_stopping_at_failure(ls, n, fn) ==
    \/ /\ \E k \in Kinds : HasFreed(updaters[k].sources)
       /\ PassCrashes
    \/ LET us == AfterLeaseLoop(ls)
           hs == UpdateKind(us[KindOrder[1]], last[KindOrder[1]])
           rs == UpdateKind(us[KindOrder[2]], last[KindOrder[2]])
       IN  \E rh \in hs :
             IF rh.crashed THEN PassCrashes
             ELSE IF rh.log.tried \/ rh.log.scripts # <<>>
                  THEN PassReturns(ls, n, fn, rh, KindResult(us[KindOrder[2]], FALSE, NoLog))
             ELSE \E rr \in rs :
                     IF rr.crashed THEN PassCrashes ELSE PassReturns(ls, n, fn, rh, rr)

\* One reconciliation pass over the leases ls, the n-th since they changed.  The clearing loop and
\* add_source walk every list, so a record freed by an earlier pass and
\* still linked is written and read before any kind is processed.
Pass(ls, n, fn) ==
    \/ /\ \E k \in Kinds : HasFreed(updaters[k].sources)
       /\ PassCrashes
    \/ LET us == AfterLeaseLoop(ls)
           hs == UpdateKind(us[KindOrder[1]], last[KindOrder[1]])
           rs == UpdateKind(us[KindOrder[2]], last[KindOrder[2]])
       IN  \E rh \in hs :
             IF rh.crashed THEN PassCrashes
             ELSE \E rr \in rs :
                     IF rr.crashed THEN PassCrashes ELSE PassReturns(ls, n, fn, rh, rr)

\* ni_system_update_all called with the leases as the last pass saw them
ni_system_update_all ==
    /\ ~crashed
    /\ Pass(leases, IF stable < 2 THEN stable + 1 ELSE 2, "ni_system_update_all")

\* ni_system_update_from_lease: "a lease has changed, and we are asked to
\* update the system configuration"; the caller has already changed the
\* leases of the interfaces, and the function runs the pass over what it
\* finds.
ni_system_update_from_lease ==
    /\ ~crashed
    /\ \E ls \in LeaseChanges(leases) : Pass(ls, 1, "ni_system_update_from_lease")

----------------------------------------------------------------------------
(* Specifications *)

InitCommon ==
    /\ initialized = FALSE
    /\ updaters = [k \in Kinds |-> ZeroUpdater]
    /\ leases \in LeaseLists
    /\ config \in [Kinds -> MainConfigs]
    /\ crashed = FALSE
    /\ last = [k \in Kinds |-> NoLog]
    /\ stable = 0
    /\ backedUp = [k \in Kinds |-> FALSE]
    /\ dhcp = IdleDevice
    /\ returned = NoReturn

\* the program as it is in src/: ni_system_updater_run is the placeholder
Init == InitCommon /\ executor = "stub"

Next ==
    \/ ni_system_updaters_init
    \/ ni_system_update_all
    \/ ni_system_update_from_lease

Spec == Init /\ [][Next]_vars

----------------------------------------------------------------------------
(* The three script functions called one at a time on an enabled updater,  *)
(* with a script executor that can succeed.  ni_system_update_all calls    *)
(* restore and install like this; backup is the step install begins with.  *)

\* what a direct call records: the scripts it ran
CallLog(o) ==
    [ran |-> TRUE, winner |-> <<>>, scripts |-> o.scripts, tried |-> o.tried,
     uaf |-> FALSE, retry |-> FALSE]

\* the updater of kind k goes through one call with outcome o
Called(k, o) ==
    /\ updaters' = [updaters EXCEPT ![k] = o.u]
    /\ last' = [last EXCEPT ![k] = CallLog(o)]
    /\ backedUp' = [backedUp EXCEPT ![k] = TrackBackup(backedUp[k], o.scripts)]
    /\ UNCHANGED <<initialized, leases, config, executor, crashed, stable, dhcp, returned>>

CallBackup ==
    \E k \in Kinds : /\ updaters[k].enabled
                     /\ \E o \in ni_system_updater_backup(updaters[k]) : Called(k, o)

CallRestore ==
    \E k \in Kinds : /\ updaters[k].enabled
                     /\ \E o \in ni_system_updater_restore(updaters[k]) : Called(k, o)

CallInstall ==
    \E k \in Kinds : /\ updaters[k].enabled
                     /\ \E l \in LeasePool :
                          \E o \in ni_system_updater_install(updaters[k], l) : Called(k, o)

\* The updaters as init leaves them, with any installed sequence number:
\* the value the assignment behind install's switch would have stored.
InitUnit ==
    /\ initialized = TRUE
    /\ config \in [Kinds -> MainConfigs]
    /\ \E sq \in [Kinds -> 0..MaxSeqno] :
          updaters = [k \in Kinds |->
                        [InitUpdater(ZeroUpdater, config[k]) EXCEPT !.seqno = sq[k]]]
    /\ leases = <<>>
    /\ executor = "scripts"
    /\ crashed = FALSE
    /\ last = [k \in Kinds |-> NoLog]
    /\ stable = 0
    /\ backedUp = [k \in Kinds |-> FALSE]
    /\ dhcp = IdleDevice
    /\ returned = NoReturn

NextUnit ==
    \/ CallBackup
    \/ CallRestore
    \/ CallInstall

SpecUnit == InitUnit /\ [][NextUnit]_vars

----------------------------------------------------------------------------
(* Initialisation under every configuration: any subset of the three       *)
(* scripts per kind, init called any number of times, and the script       *)
(* functions called on the updaters it enabled.                            *)

InitConfig ==
    /\ initialized = FALSE
    /\ updaters = [k \in Kinds |-> ZeroUpdater]
    /\ leases = <<>>
    /\ config \in [Kinds -> KindConfigs]
    /\ executor = "scripts"
    /\ crashed = FALSE
    /\ last = [k \in Kinds |-> NoLog]
    /\ stable = 0
    /\ backedUp = [k \in Kinds |-> FALSE]
    /\ dhcp = IdleDevice
    /\ returned = NoReturn

NextConfig ==
    \/ ni_system_updaters_init
    \/ CallBackup
    \/ CallRestore
    \/ CallInstall

SpecConfig == InitConfig /\ [][NextConfig]_vars

----------------------------------------------------------------------------
(* The DBus methods of the dhcp4 device (src/dhcp4/dbus-api.c) *)

\* what a caller can send as the options of acquire: a dict without
\* entries, one whose entries do not describe a request, one that does
Dicts == {"empty", "malformed", "valid"}

\* __wicked_dbus_set_addrconf_request: whether the request can be filled
\* from the dict.  A dict without entries sets nothing; whether that is
\* accepted is left open.
wicked_dbus_set_addrconf_request(dict) ==
    CASE dict = "valid" -> {TRUE}
      [] dict = "malformed" -> {FALSE}
      [] OTHER -> BOOLEAN

\* ni_dhcp_acquire: the negotiation is started, replacing one in flight,
\* or cannot be started
ni_dhcp_acquire(dev) ==
    { [dev |-> [dev EXCEPT !.acquiring = TRUE], rv |-> 0], [dev |-> dev, rv |-> -1] }

\* the device after a call, with the record of the call
Reply(dev, method, argv, ret, error, called, uuid) ==
    [dev EXCEPT !.call = [method |-> method, argv |-> argv, ret |-> ret, error |-> error,
                          called |-> called, uuid |-> uuid, active |-> dev.uuid]]

\* acquire without the argc test: with no argument, what lies behind argv
\* is handed on as the dict
acquire_svc_without_argc_test(dev, argv) ==
    UNION {
        IF ~ok
        THEN { Reply(dev, "acquire", argv, FALSE, "set_addrconf_request", "none", ZeroUuid) }
        ELSE { IF a.rv < 0
               THEN Reply(a.dev, "acquire", argv, FALSE, "FAILED", "ni_dhcp_acquire", ZeroUuid)
               ELSE Reply(a.dev, "acquire", argv, TRUE, "none", "ni_dhcp_acquire", ZeroUuid) :
                 a \in ni_dhcp_acquire(dev) }
        : ok \in IF Len(argv) = 0 THEN BOOLEAN
                 ELSE wicked_dbus_set_addrconf_request(argv[1]) }

\* __wicked_dbus_dhcp4_acquire_svc with the arguments argv: the devices it
\* can leave behind
wicked_dbus_dhcp4_acquire_svc(dev, argv) ==
    IF Len(argv) = 0
    THEN { Reply(dev, "acquire", argv, FALSE, "INVALID_ARGS", "none", ZeroUuid) }
    ELSE UNION {
        IF ~ok
        THEN { Reply(dev, "acquire", argv, FALSE, "set_addrconf_request", "none", ZeroUuid) }
        ELSE { IF a.rv < 0
               THEN Reply(a.dev, "acquire", argv, FALSE, "FAILED", "ni_dhcp_acquire", ZeroUuid)
               ELSE Reply(a.dev, "acquire", argv, TRUE, "none", "ni_dhcp_acquire", ZeroUuid) :
                 a \in ni_dhcp_acquire(dev) }
        : ok \in wicked_dbus_set_addrconf_request(argv[1]) }

\* The byte arrays a caller can send as the argument of drop: a length and,
\* standing for the octets, a uuid.  Arrays of UuidOctets octets carry any
\* uuid; one shorter and one longer array stand for the other lengths.
ByteArrays ==
    [len : {UuidOctets}, octets : 0..MaxUuid]
    \cup [len : {UuidOctets - 1, UuidOctets + 1}, octets : {1}]

\* ni_dbus_variant_get_byte_array_minmax: the octets are copied out when the
\* length of the array is within min..max
ni_dbus_variant_get_byte_array_minmax(array, min, max) ==
    IF min <= array.len /\ array.len <= max
    THEN [ok |-> TRUE, octets |-> array.octets]
    ELSE [ok |-> FALSE, octets |-> ZeroUuid]

\* ni_dhcp_release: fails when neither a negotiation nor a lease is active;
\* with a uuid other than the all-zero one releases only the lease of that
\* uuid; else releases what is active
ni_dhcp_release(dev, uuid) ==
    IF ~dev.acquiring /\ dev.uuid = ZeroUuid THEN { [dev |-> dev, rv |-> -1] }
    ELSE IF uuid # ZeroUuid /\ uuid # dev.uuid
         THEN { [dev |-> dev, rv |-> 0], [dev |-> dev, rv |-> -1] }
    ELSE { [dev |-> [dev EXCEPT !.acquiring = FALSE, !.uuid = ZeroUuid, !.lease = NoLease],
            rv |-> 0] }

\* drop without the length test: the octets of an array of any length are
\* handed on as the uuid
drop_svc_without_length_test(dev, argv) ==
    LET uuid == IF Len(argv) = 1 THEN argv[1].octets ELSE ZeroUuid
    IN  { IF r.rv < 0
          THEN Reply(r.dev, "drop", argv, FALSE, "FAILED", "ni_dhcp_release", uuid)
          ELSE Reply(r.dev, "drop", argv, TRUE, "none", "ni_dhcp_release", uuid) :
            r \in ni_dhcp_release(dev, uuid) }

\* drop not looking at its argument: the all-zero uuid is handed on
\* whatever the caller sent
drop_svc_ignoring_argument(dev, argv) ==
    { IF r.rv < 0
      THEN Reply(r.dev, "drop", argv, FALSE, "FAILED", "ni_dhcp_release", ZeroUuid)
      ELSE Reply(r.dev, "drop", argv, TRUE, "none", "ni_dhcp_release", ZeroUuid) :
        r \in ni_dhcp_release(dev, ZeroUuid) }

\* __wicked_dbus_dhcp4_drop_svc with the arguments argv: the devices it can
\* leave behind
wicked_dbus_dhcp4_drop_svc(dev, argv) ==
    LET got == IF Len(argv) = 1
               THEN ni_dbus_variant_get_byte_array_minmax(argv[1], UuidOctets, UuidOctets)
               ELSE [ok |-> TRUE, octets |-> ZeroUuid]
    IN  IF ~got.ok
        THEN { Reply(dev, "drop", argv, FALSE, "INVALID_ARGS", "none", ZeroUuid) }
        ELSE { IF r.rv < 0
               THEN Reply(r.dev, "drop", argv, FALSE, "FAILED", "ni_dhcp_release", got.octets)
               ELSE Reply(r.dev, "drop", argv, TRUE, "none", "ni_dhcp_release", got.octets) :
                 r \in ni_dhcp_release(dev, got.octets) }

\* the leases of the interface of the device
DeviceLeases(dev) == IF dev.lease = NoLease THEN <<>> ELSE <<dev.lease>>

\* a method call has left the device as d
DeviceCalled(d) ==
    /\ dhcp' = [d EXCEPT !.call.active = dhcp.uuid]
    /\ leases' = DeviceLeases(d)
    /\ stable' = 0
    /\ UNCHANGED <<initialized, updaters, config, executor, crashed, last, backedUp, returned>>

\* Interface.acquire(dict options)
acquire ==
    /\ ~crashed
    /\ \E argv \in {<<>>} \cup { <<dict>> : dict \in Dicts } :
          \E d \in wicked_dbus_dhcp4_acquire_svc(dhcp, argv) : DeviceCalled(d)

\* Interface.drop(void)
drop ==
    /\ ~crashed
    /\ \E argv \in {<<>>} \cup { <<array>> : array \in ByteArrays } :
          \E d \in wicked_dbus_dhcp4_drop_svc(dhcp, argv) : DeviceCalled(d)

\* The negotiation completes: the device holds a new lease, with a uuid and
\* a seqno of its own, in place of the one it held.
LeaseAcquired ==
    /\ ~crashed
    /\ dhcp.acquiring
    /\ \E u \in 1..MaxUuid : \E sq \in 1..MaxSeqno :
          /\ u # dhcp.uuid
          /\ sq # dhcp.lease.seqno
          /\ dhcp' = [acquiring |-> FALSE, uuid |-> u, lease |-> MakeLease(sq, DhcpProfile),
                      call |-> NoCall]
          /\ leases' = <<MakeLease(sq, DhcpProfile)>>
          /\ stable' = 0
    /\ UNCHANGED <<initialized, updaters, config, executor, crashed, last, backedUp, returned>>

InitDhcp ==
    /\ initialized = FALSE
    /\ updaters = [k \in Kinds |-> ZeroUpdater]
    /\ leases = <<>>
    /\ config \in [Kinds -> MainConfigs]
    /\ executor = "stub"
    /\ crashed = FALSE
    /\ last = [k \in Kinds |-> NoLog]
    /\ stable = 0
    /\ backedUp = [k \in Kinds |-> FALSE]
    /\ dhcp = IdleDevice
    /\ returned = NoReturn

NextDhcp ==
    \/ acquire
    \/ drop
    \/ LeaseAcquired
    \/ ni_system_update_all

SpecDhcp == InitDhcp /\ [][NextDhcp]_vars

----------------------------------------------------------------------------
(* Properties *)

\* the leases of the list ls that kind k can be updated from
Qualifying(k, ls) == { ls[i] : i \in { n \in 1..Len(ls) : can_update(k, ls[n]) } }

\* the sequence numbers of the records of a source list
Seqnos(sources) == { sources[i].seqno : i \in 1..Len(sources) }

\* the records of a source list with the sequence number s
WithSeqno(sources, s) == { i \in 1..Len(sources) : sources[i].seqno = s }

\* C1: the source list of a kind never holds two records with the same
\* seqno.  Over one pass a list that is not purged (that of a disabled
\* kind) keeps its records in place with their seqno and weight, and grows
\* by exactly one record for each seqno among the qualifying leases that
\* it did not hold before: a second lease with a seqno already in the list
\* only replaces the lease reference of the record.
C1_AddSourceCoalesces ==
    [][\A k \in Kinds :
         LET old == updaters[k].sources
             new == updaters'[k].sources
             fresh == { l.seqno : l \in Qualifying(k, leases') } \ Seqnos(old)
         IN  /\ \A i, j \in 1..Len(new) : new[i].seqno = new[j].seqno => i = j
             /\ (~crashed' /\ stable' > 0 /\ ~last'[k].ran) =>
                   /\ Len(new) = Len(old) + Cardinality(fresh)
                   /\ \A i \in 1..Len(old) : /\ new[i].seqno = old[i].seqno
                                             /\ new[i].weight = old[i].weight
                   /\ \A i \in 1..Len(new) :
                         new[i].lease = NoLease \/ new[i].lease.seqno = new[i].seqno]_vars

\* two leases of one seqno both qualify for a kind, and its list holds one
\* record for them, created for the first and now referring to the second
C1_Witness ==
    \E k \in Kinds : \E i, j \in 1..Len(leases) :
        /\ i < j
        /\ leases[i].seqno = leases[j].seqno
        /\ can_update(k, leases[i]) /\ can_update(k, leases[j])
        /\ stable > 0
        /\ \E n \in 1..Len(updaters[k].sources) :
              /\ WithSeqno(updaters[k].sources, leases[i].seqno) = {n}
              /\ updaters[k].sources[n].weight = SourceWeight(leases[i])
              /\ updaters[k].sources[n].lease = leases[j]
              /\ leases[j] # leases[i]

\* the records of a source list that refer to a lease
Live(sources) == SelectSeq(sources, LAMBDA up : up.lease # NoLease)

\* the record of greatest weight in a list, the earliest on ties
Heaviest(sources) ==
    IF sources = <<>> THEN <<>>
    ELSE LET i == CHOOSE n \in 1..Len(sources) :
                    /\ \A m \in 1..Len(sources) : sources[m].weight <= sources[n].weight
                    /\ \A m \in 1..(n - 1) : sources[m].weight < sources[n].weight
         IN  <<sources[i]>>

\* C2: the record the pass selected for a kind is the record of greatest
\* weight among those of its list that refer to a lease, the earliest on
\* ties, and there is none when no record refers to a lease.
C2_SelectAmongLive ==
    \A k \in Kinds :
        last[k].ran => last[k].winner = Heaviest(Live(updaters[k].sources))

\* C3 as stated: a pass that follows a pass over the same leases runs no
\* script for any kind.
C3_SecondPassRunsNoScript ==
    stable = 2 => \A k \in Kinds : last[k].scripts = <<>>

\* C3: a pass that follows a pass over the same leases runs no restore and
\* no install script, and runs the backup script only for a kind whose
\* backup script failed in the pass before: the failed backup is tried
\* again, once.
C3_SecondPassOnlyRetriesBackup ==
    stable = 2 =>
        \A k \in Kinds :
            \/ last[k].scripts = <<>>
            \/ /\ last[k].retry
               /\ Len(last[k].scripts) = 1
               /\ last[k].scripts[1].script = "backup"

\* a second pass over the same leases has run the backup script again for
\* one kind and no script for the other, whose updater is enabled
C3_Witness ==
    /\ stable = 2
    /\ \E k, j \in Kinds :
          /\ last[k].retry /\ BackupFailed(last[k].scripts)
          /\ last[j].ran /\ last[j].scripts = <<>>

\* C4: after a pass for an enabled kind over leases none of which
\* qualifies for the kind, the source list of the kind is empty, also when
\* two or more adjacent records went stale in that pass; the restore script
\* has run once if there was a backup and not at all if there was none,
\* and have_backup is false when it succeeded.
C4_AllWithdrawnEmptiesList ==
    \A k \in Kinds :
        (stable > 0 /\ last[k].ran /\ Qualifying(k, leases) = {}) =>
            /\ updaters[k].sources = <<>>
            /\ last[k].scripts \in { <<>>, <<[script |-> "restore", ok |-> TRUE]>>,
                                     <<[script |-> "restore", ok |-> FALSE]>> }
            /\ updaters[k].have_backup =>
                  (updaters[k].proc_restore =>
                      last[k].scripts = <<[script |-> "restore", ok |-> FALSE]>>)

\* C5: in a pass where the backup script of a kind fails, install goes no
\* further: no settings file is built and no install script run,
\* have_backup stays false, seqno keeps its value and the kind stays
\* enabled.  The next pass that selects a record of the same seqno runs
\* the backup script again, and when it fails again leaves the updater as
\* it was.
C5_BackupFailureAbortsInstall ==
    [][\A k \in Kinds :
         /\ BackupFailed(last'[k].scripts) =>
               /\ last'[k].scripts = <<[script |-> "backup", ok |-> FALSE]>>
               /\ ~last'[k].tried
               /\ ~updaters'[k].have_backup
               /\ updaters'[k].seqno = updaters[k].seqno
               /\ updaters'[k].enabled
         /\ ( /\ BackupFailed(last[k].scripts)
              /\ last'[k].ran
              /\ last'[k].winner # <<>> /\ last[k].winner # <<>>
              /\ last'[k].winner[1].seqno = last[k].winner[1].seqno ) =>
                 /\ last'[k].scripts # <<>>
                 /\ last'[k].scripts[1].script = "backup"
                 /\ BackupFailed(last'[k].scripts) =>
                       /\ updaters'[k].enabled = updaters[k].enabled
                       /\ updaters'[k].seqno = updaters[k].seqno
                       /\ updaters'[k].have_backup = updaters[k].have_backup]_vars

\* the backup script of a kind failed in a pass, and failed again in the
\* pass after it, which selected the same record: the kind is enabled and
\* has no backup
C5_Witness ==
    \E k \in Kinds :
        /\ last[k].retry
        /\ last[k].scripts = <<[script |-> "backup", ok |-> FALSE]>>
        /\ last[k].winner # <<>>
        /\ ~last[k].tried
        /\ updaters[k].enabled /\ ~updaters[k].have_backup
        /\ updaters[k].seqno # last[k].winner[1].seqno

\* the DHCP lease over IPv4 with seqno 1 and the firmware (iBFT) lease with
\* seqno 2 of Scenario A
ScenarioLeases == { MakeLease(1, DhcpProfile), MakeLease(2, IbftProfile) }

\* C6: with exactly a DHCP lease over IPv4 of seqno 1 (weight 51) and a
\* firmware lease of seqno 2 (weight 100) offering the hostname, a pass in
\* which the hostname updater is enabled and its backup does not fail
\* selects the firmware record, runs the install script once with the
\* firmware lease's settings, and leaves seqno = 2.
C6_ScenarioFirmwareWins ==
    ( /\ stable > 0
      /\ { leases[i] : i \in 1..Len(leases) } = ScenarioLeases
      /\ last["hostname"].ran
      /\ ~BackupFailed(last["hostname"].scripts) ) =>
        /\ last["hostname"].winner # <<>>
        /\ last["hostname"].winner[1].seqno = 2
        /\ last["hostname"].winner[1].weight = 100
        /\ updaters["hostname"].seqno = 2
        /\ Cardinality({ i \in 1..Len(last["hostname"].scripts) :
                            last["hostname"].scripts[i].script = "install" }) = 1

RestoreSucceeded(k) ==
    /\ last'[k] # last[k] \/ updaters'[k] # updaters[k]
    /\ last'[k].scripts = <<[script |-> "restore", ok |-> TRUE]>>

C9_DisabledStaysDisabled ==
    [][\A k \in Kinds :
         /\ (initialized /\ ~updaters[k].enabled) =>
               /\ ~updaters'[k].enabled
               /\ ~crashed' => last'[k] = NoLog
         /\ last'[k].tried => ~updaters'[k].enabled
         /\ BackupFailed(last'[k].scripts) => updaters'[k].enabled
         /\ \A i \in 1..Len(last'[k].scripts) :
               last'[k].scripts[i].script # "install"]_vars

\* an updater that init enabled was disabled by an install, and the pass
\* after that did nothing for it although a lease qualifies
C9_Witness ==
    \E k \in Kinds :
        /\ initialized /\ config[k].install
        /\ ~updaters[k].enabled
        /\ stable = 2
        /\ last[k] = NoLog
        /\ Qualifying(k, leases) # {}

\* C10: when select runs in a pass, every record still in the list of the
\* kind refers to a lease seen in that pass, so the record selected, and
\* handed to install, is never a stale one.
C10_NoStaleSourceAtSelect ==
    \A k \in Kinds :
        last[k].ran =>
            /\ \A i \in 1..Len(updaters[k].sources) :
                  \E j \in 1..Len(leases) : updaters[k].sources[i].lease = leases[j]
            /\ last[k].winner # <<>> => last[k].winner[1].lease # NoLease

\* a script of the kind failed in the last pass, or its install gave up
FailedInPass(k) ==
    \/ last[k].tried
    \/ \E i \in 1..Len(last[k].scripts) : ~last[k].scripts[i].ok

\* C11: a pass that returns has processed every kind that was enabled when
\* it began, whatever happened to the kinds before it: the kind is purged
\* and arbitrated (its record of the pass is there, with the record
\* selected from its list), also when a script of an earlier kind failed or
\* the install of an earlier kind gave up and disabled that kind.
C11_FailureDoesNotStopOtherKinds ==
    stable > 0 =>
        \A k \in Kinds :
            /\ (updaters[k].enabled \/ last[k].tried) <=> last[k].ran
            /\ last[k].ran =>
                  last[k].winner = ni_objectmodel_updater_select_source(updaters[k].sources)
            /\ (last[k].ran /\ last[k].winner # <<>> /\ ~updaters[k].have_backup
                  /\ updaters[k].seqno # last[k].winner[1].seqno) =>
                    FailedInPass(k)

\* in one pass the backup of the hostname updater failed, and the resolver
\* updater, which comes after it, was purged, arbitrated and given its own
\* install attempt
C11_Witness ==
    /\ stable > 0
    /\ BackupFailed(last["hostname"].scripts)
    /\ last["resolver"].ran
    /\ last["resolver"].winner # <<>>
    /\ FailedInPass("resolver")

\* the install script of the kind has run with success among the scripts
InstallSucceeded(scripts) ==
    \E i \in 1..Len(scripts) : scripts[i] = [script |-> "install", ok |-> TRUE]

\* C12: the seqno of every updater is 0 at the start, and a step changes
\* it only when an install script succeeded for the kind in that step, to
\* the seqno of the record the pass selected; a pass in which the backup
\* failed or install gave up leaves it as it was.
C12_SeqnoOnlyBySuccessfulInstall ==
    /\ \A k \in Kinds : updaters[k].seqno = 0
    /\ [][\A k \in Kinds :
            updaters'[k].seqno # updaters[k].seqno =>
               /\ InstallSucceeded(last'[k].scripts)
               /\ last'[k].winner # <<>>
               /\ updaters'[k].seqno = last'[k].winner[1].seqno]_vars

\* one updater's backup has failed and the other's install has given up,
\* each with a record of seqno other than 0 selected, and both still have
\* seqno 0
C12_Witness ==
    \E k, j \in Kinds :
        /\ BackupFailed(last[k].scripts) /\ last[k].winner # <<>>
        /\ last[j].tried /\ last[j].winner # <<>> /\ last[j].winner[1].seqno # 0
        /\ updaters[k].seqno = 0 /\ updaters[j].seqno = 0

\* the kind is configured with an install script but not with both a
\* backup and a restore script
InstallOnly(k) == config[k].install /\ (~config[k].backup \/ ~config[k].restore)

\* C13: once init has run, a kind is enabled only if an install script is
\* configured for it; a kind with an install script but without a backup
\* or without a restore script has neither proc_backup nor proc_restore
\* and keeps proc_install, its backup and restore calls run no script and
\* succeed, and its have_backup is never set.  A later call of init
\* changes nothing: the scripts found stay, and an updater that is
\* disabled is not enabled again.
C13_InitOnceAndScriptRules ==
    /\ [](initialized =>
            \A k \in Kinds :
                /\ updaters[k].enabled => config[k].install
                /\ InstallOnly(k) =>
                      /\ ~updaters[k].proc_backup /\ ~updaters[k].proc_restore
                      /\ updaters[k].proc_install
                      /\ ~updaters[k].have_backup
                      /\ last[k].scripts = <<>>)
    /\ [][initialized =>
            /\ initialized'
            /\ \A k \in Kinds :
                  /\ updaters'[k].proc_backup = updaters[k].proc_backup
                  /\ updaters'[k].proc_restore = updaters[k].proc_restore
                  /\ updaters'[k].proc_install = updaters[k].proc_install
                  /\ ~updaters[k].enabled => ~updaters'[k].enabled]_vars

\* a kind configured with install and backup scripts but no restore script
\* is enabled, and a call of backup or restore for it has returned without
\* running a script; the other kind, enabled by init, has been disabled
\* since
C13_Witness ==
    \E k, j \in Kinds :
        /\ initialized
        /\ config[k].install /\ config[k].backup /\ ~config[k].restore
        /\ updaters[k].enabled
        /\ last[k].ran /\ ~last[k].tried /\ last[k].scripts = <<>>
        /\ config[j].install /\ ~updaters[j].enabled

C15_DropValidatesIdentifier ==
    /\ [](dhcp.call.method = "drop" =>
            /\ (dhcp.call.argv # <<>> /\ dhcp.call.argv[1].len # UuidOctets) =>
                  /\ ~dhcp.call.ret
                  /\ dhcp.call.error = "INVALID_ARGS"
                  /\ dhcp.call.called = "none"
            /\ (dhcp.call.argv # <<>> /\ dhcp.call.argv[1].len = UuidOctets) =>
                  /\ dhcp.call.called = "ni_dhcp_release"
                  /\ dhcp.call.uuid = dhcp.call.argv[1].octets
            /\ dhcp.call.argv = <<>> =>
                  /\ dhcp.call.called = "ni_dhcp_release"
                  /\ dhcp.call.uuid = ZeroUuid
                  /\ dhcp.call.active # ZeroUuid =>
                        /\ dhcp.call.ret
                        /\ dhcp.uuid = ZeroUuid /\ dhcp.lease = NoLease
                        /\ leases = <<>>)
    /\ [][(dhcp'.call.method = "drop" /\ dhcp'.call.called = "none") =>
            /\ dhcp'.acquiring = dhcp.acquiring
            /\ dhcp'.uuid = dhcp.uuid
            /\ dhcp'.lease = dhcp.lease
            /\ leases' = leases]_vars

\* drop has been called without an argument on a device holding a lease:
\* the all-zero uuid went to ni_dhcp_release and the lease is gone
C15_Witness ==
    /\ dhcp.call.method = "drop"
    /\ dhcp.call.argv = <<>>
    /\ dhcp.call.active # ZeroUuid
    /\ dhcp.call.called = "ni_dhcp_release" /\ dhcp.call.uuid = ZeroUuid
    /\ dhcp.uuid = ZeroUuid
    /\ leases = <<>>

\* the last call was a drop with UuidOctets octets that are neither all
\* zero nor the uuid of the lease the device held
DropOfOtherLease(d) ==
    /\ d.call.method = "drop"
    /\ d.call.argv # <<>>
    /\ d.call.argv[1].len = UuidOctets
    /\ d.call.argv[1].octets # ZeroUuid
    /\ d.call.active # ZeroUuid
    /\ d.call.argv[1].octets # d.call.active

\* C16: drop called with UuidOctets octets that are not the uuid of the
\* lease the device holds releases nothing: the device keeps its lease and
\* the leases of the interface are as before, and a pass that follows
\* selects, for every kind it processes, the record of that lease.
C16_DropOfOtherLeaseKeepsLease ==
    /\ [](DropOfOtherLease(dhcp) =>
            /\ dhcp.uuid = dhcp.call.active
            /\ dhcp.lease # NoLease
            /\ leases = <<dhcp.lease>>
            /\ stable > 0 =>
                  \A k \in Kinds :
                      last[k].ran =>
                         /\ last[k].winner # <<>>
                         /\ last[k].winner[1].lease = dhcp.lease
                         /\ last[k].winner[1].seqno = dhcp.lease.seqno)
    /\ [][DropOfOtherLease(dhcp') =>
            /\ dhcp'.lease = dhcp.lease
            /\ dhcp'.acquiring = dhcp.acquiring
            /\ leases' = leases]_vars

\* a drop for another lease has been made on a device holding a lease, a
\* pass has run since, and the pass has selected the record of the lease
\* held for a kind
C16_Witness ==
    /\ DropOfOtherLease(dhcp)
    /\ stable > 0
    /\ \E k \in Kinds :
          /\ last[k].ran
          /\ last[k].winner # <<>>
          /\ last[k].winner[1].lease = dhcp.lease

\* C17: a pass that returns leaves an updater that is disabled when the
\* kind loop reaches it as it was, but for what the clearing loop and the
\* lease loop do to its list: no purge, no select, no script; seqno,
\* have_backup and enabled keep their values; every record stays in its
\* place with its seqno and weight, and refers to a lease of the pass with
\* its seqno or, when there is none, to no lease.  The list does not
\* shrink.
C17_DisabledUpdaterUntouched ==
    [][\A k \in Kinds :
         (stable' > 0 /\ ~InitializedUpdaters[k].enabled) =>
            LET old == updaters[k].sources
                new == updaters'[k].sources
            IN  /\ last'[k] = NoLog
                /\ updaters'[k].seqno = updaters[k].seqno
                /\ updaters'[k].have_backup = updaters[k].have_backup
                /\ ~updaters'[k].enabled
                /\ Len(new) >= Len(old)
                /\ \A i \in 1..Len(old) :
                      /\ new[i].seqno = old[i].seqno
                      /\ new[i].weight = old[i].weight
                      /\ ~new[i].freed
                      /\ IF \E l \in Qualifying(k, leases') : l.seqno = old[i].seqno
                         THEN new[i].lease \in Qualifying(k, leases')
                              /\ new[i].lease.seqno = old[i].seqno
                         ELSE new[i].lease = NoLease]_vars

\* the list of a disabled updater holds two records, one of them for a
\* lease that was withdrawn, after a pass over the leases that are left
C17_Witness ==
    \E k \in Kinds :
        /\ initialized /\ ~updaters[k].enabled
        /\ stable > 0
        /\ Len(updaters[k].sources) = 2
        /\ \E i \in 1..2 : updaters[k].sources[i].lease = NoLease
        /\ \E i \in 1..2 : updaters[k].sources[i].lease # NoLease

\* C18: a pass entered through ni_system_update_all gives 1 back to its
\* caller and a pass entered through ni_system_update_from_lease gives 0,
\* whatever the pass did for the kinds: also when a backup failed or an
\* install gave up and disabled its kind.
C18_ReturnValuesHideFailures ==
    /\ returned.fn = "ni_system_update_all" => returned.value = 1
    /\ returned.fn = "ni_system_update_from_lease" => returned.value = 0
    /\ stable > 0 => returned.fn # "none"

\* ni_system_update_from_lease has returned 0 from a pass in which the
\* backup of one kind failed and the install of the other gave up
C18_Witness ==
    /\ returned = [fn |-> "ni_system_update_from_lease", value |-> 0]
    /\ stable > 0
    /\ \E k, j \in Kinds :
          /\ BackupFailed(last[k].scripts)
          /\ last[j].tried /\ ~updaters[j].enabled

\* C19: every record that refers to a lease has the weight of that lease,
\* also when the lease took the place of another lease with the same seqno
\* in the record.
C19_WeightOfReferencedLease ==
    \A k \in Kinds : \A i \in 1..Len(updaters[k].sources) :
        updaters[k].sources[i].lease # NoLease =>
            updaters[k].sources[i].weight = SourceWeight(updaters[k].sources[i].lease)

\* C20: the purge loop does not read or write a record it has freed, and
\* when it is done no freed record is linked in the list of any updater,
\* whatever the arrangement of stale and live records.
C20_PurgeNeverUsesFreedRecord ==
    /\ ~crashed
    /\ \A k \in Kinds :
          /\ ~last[k].uaf
          /\ ~HasFreed(updaters[k].sources)

====
